---- MODULE Spec2Model ----
(***************************************************************************)
(* Verification model of three parts of pygimli:                           *)
(*   core/matrix.py        the composite matrix adapters                    *)
(*   physics/ert/ves.py    the VESManager (createINV / invert)              *)
(*   mplviewer/dataview.py generateMatrix                                   *)
(* Each part has its own specification (SpecMatrix, SpecVES, SpecData);     *)
(* the variables of the other parts stay Idle in it.  Numbers are integers  *)
(* or exact fractions, so the arithmetic of the code is exact in the model. *)
(***************************************************************************)
EXTENDS Integers, Sequences, FiniteSets, TLC

VARIABLES
    obj,    \* matrix.py: the adapter object, None before construction
    ctor,   \* matrix.py: the constructor call made
    last,   \* matrix.py: the last method call and what it returned
    mgr,    \* ves.py: the VESManager object
    call,   \* ves.py: the last createINV / invert call and its outcome
    gm      \* dataview.py: generateMatrix's arguments and result

vars == <<obj, ctor, last, mgr, call, gm>>

\* a part of the program that a specification does not run
Idle == [op |-> "idle"]

(***************************************************************************)
(* Bounds and input sets                                                    *)
(***************************************************************************)
\* largest number of rows and of columns of a wrapped matrix, and the
\* largest length of a vector handed to a constructor
MaxDim == 3

\* largest number of entries (rows times columns) of a wrapped matrix
MaxCells == 6

\* entries of matrices and vectors
Vals == {1, 2}

Vecs(n) == [1..n -> Vals]

AnyVec == UNION {Vecs(n) : n \in 1..MaxDim}

Shapes == {s \in (1..MaxDim) \X (1..MaxDim) : s[1] * s[2] <= MaxCells}

Matrices == UNION {[1..s[1] -> Vecs(s[2])] : s \in Shapes}

\* diagonal entries of the matrices handed to Cm05Matrix: squares, so that
\* sqrt(1/ew) is a rational number
SquareVals == {1, 4, 9}

DiagMatrix(d) == [i \in 1..Len(d) |-> [j \in 1..Len(d) |-> IF i = j THEN d[i] ELSE 0]]

\* the square inputs of Cm05Matrix: symmetric positive definite, diagonal
DiagMatrices == {DiagMatrix(d) : d \in UNION {[1..n -> SquareVals] : n \in 1..MaxDim}}

(***************************************************************************)
(* The native vector and matrix operations the adapters delegate to         *)
(***************************************************************************)
RECURSIVE SumTo(_, _)
SumTo(f, n) == IF n = 0 THEN 0 ELSE f[n] + SumTo(f, n - 1)

\* v * w of two vectors: the element-wise product
VecMul(v, w) == [i \in 1..Len(v) |-> v[i] * w[i]]

\* pg.RVector(n, val)
RVector(n, val) == [i \in 1..n |-> val]

Rows(A) == Len(A)

Cols(A) == Len(A[1])

\* A.mult(x) = A.x
MatMult(A, x) ==
    [i \in 1..Rows(A) |-> SumTo([j \in 1..Cols(A) |-> A[i][j] * x[j]], Cols(A))]

\* A.transMult(y) = A^T.y
MatTransMult(A, y) ==
    [j \in 1..Cols(A) |-> SumTo([i \in 1..Rows(A) |-> A[i][j] * y[i]], Rows(A))]

(***************************************************************************)
(* core/matrix.py                                                           *)
(***************************************************************************)
None == [kind |-> "None"]

\* an optional argument: left out (Python's default None) or given
Omitted == [given |-> FALSE]

Given(v) == [given |-> TRUE, v |-> v]

Raised == [kind |-> "Raised"]

\* faulty variant: the length check against the columns, as the message words it
MultLeftMatrix_init_checksCols(A, left) ==
    IF Cols(A) # Len(left)
    THEN Raised
    ELSE [kind |-> "MultLeftMatrix", A |-> A, left |-> left]

\* MultLeftMatrix.__init__: the object, or Raised
MultLeftMatrix_init(A, left) ==
    IF Rows(A) # Len(left)
    THEN Raised
    ELSE [kind |-> "MultLeftMatrix", A |-> A, left |-> left]

\* MultRightMatrix.__init__; r is Omitted (r=None) or Given(vector)
MultRightMatrix_init(A, r) ==
    [kind |-> "MultRightMatrix", A |-> A,
     r |-> IF ~r.given THEN RVector(Cols(A), 1) ELSE r.v]

\* MultLeftRightMatrix.__init__: the object, or Raised
MultLeftRightMatrix_init(A, left, right) ==
    IF Cols(A) # Len(right)
    THEN Raised
    ELSE IF Rows(A) # Len(left)
         THEN Raised
         ELSE [kind |-> "MultLeftRightMatrix", A |-> A,
               right |-> right, left |-> left]

\* Each method gives the object after the call and the value returned.
MultLeftMatrix_mult(self, x) ==
    [self |-> self, ret |-> VecMul(MatMult(self.A, x), self.left)]

MultLeftMatrix_transMult(self, x) ==
    [self |-> self, ret |-> MatTransMult(self.A, VecMul(x, self.left))]

\* faulty variant: the scaling done in place on the stored vector
MultRightMatrix_mult_inPlace(self, x) ==
    [self |-> [self EXCEPT !.r = VecMul(x, self.r)],
     ret |-> MatMult(self.A, VecMul(x, self.r))]

MultRightMatrix_mult(self, x) ==
    [self |-> self, ret |-> MatMult(self.A, VecMul(x, self.r))]

MultRightMatrix_transMult(self, x) ==
    [self |-> self, ret |-> VecMul(MatTransMult(self.A, x), self.r)]

\* faulty variant: the right scaling forgotten
MultLeftRightMatrix_mult_noRight(self, x) ==
    [self |-> self, ret |-> VecMul(MatMult(self.A, x), self.left)]

MultLeftRightMatrix_mult(self, x) ==
    [self |-> self,
     ret |-> VecMul(MatMult(self.A, VecMul(x, self.right)), self.left)]

\* faulty variant: the right scaling forgotten
MultLeftRightMatrix_transMult_noRight(self, x) ==
    [self |-> self, ret |-> MatTransMult(self.A, VecMul(x, self.left))]

MultLeftRightMatrix_transMult(self, x) ==
    [self |-> self,
     ret |-> VecMul(MatTransMult(self.A, VecMul(x, self.left)), self.right)]

\* rows() and cols() of the three scaled adapters
Adapter_rows(self) == [self |-> self, ret |-> Rows(self.A)]

Adapter_cols(self) == [self |-> self, ret |-> Cols(self.A)]

(***************************************************************************)
(* Cm05Matrix.  The rational numbers its fields and results hold are pairs  *)
(* numerator/denominator in lowest terms.                                   *)
(***************************************************************************)
RECURSIVE GCD(_, _)
GCD(a, b) == IF b = 0 THEN a ELSE GCD(b, a % b)

Abs(a) == IF a < 0 THEN -a ELSE a

Rat(n, d) == LET g == GCD(Abs(n), d) IN [n |-> n \div g, d |-> d \div g]

RatAdd(a, b) == Rat(a.n * b.d + b.n * a.d, a.d * b.d)

RatScale(k, a) == Rat(k * a.n, a.d)

RECURSIVE RatSumTo(_, _)
RatSumTo(f, n) == IF n = 0 THEN Rat(0, 1) ELSE RatAdd(f[n], RatSumTo(f, n - 1))

IntSqrt(n) == CHOOSE r \in 0..n : r * r = n

\* scipy.linalg.eigh on a diagonal matrix: the eigenvalues in ascending
\* order and, as columns of EV, the unit vectors that belong to them
eigh(A) ==
    LET n == Len(A)
        pos(i) == 1 + Cardinality({j \in 1..n :
                        A[j][j] < A[i][i] \/ (A[j][j] = A[i][i] /\ j < i)})
        at(k) == CHOOSE i \in 1..n : pos(i) = k
    IN [ew |-> [k \in 1..n |-> A[at(k)][at(k)]],
        EV |-> [i \in 1..n |-> [k \in 1..n |-> IF pos(i) = k THEN 1 ELSE 0]]]

\* Cm05Matrix.__init__: the object, or Raised
Cm05Matrix_init(A) ==
    IF Rows(A) # Cols(A)
    THEN Raised
    ELSE LET e == eigh(A)
         IN [kind |-> "Cm05Matrix", size |-> Rows(A), ew |-> e.ew, EV |-> e.EV,
             mul |-> [k \in 1..Rows(A) |-> Rat(1, IntSqrt(e.ew[k]))], A |-> A]

Cm05Matrix_rows(self) == [self |-> self, ret |-> self.size]

Cm05Matrix_cols(self) == [self |-> self, ret |-> self.size]

\* EV.dot((np.dot(np.transpose(x), EV) * mul).T)
Cm05Matrix_mult(self, x) ==
    LET n == self.size
        t == [k \in 1..n |-> SumTo([i \in 1..n |-> x[i] * self.EV[i][k]], n)]
        u == [k \in 1..n |-> RatScale(t[k], self.mul[k])]
    IN [self |-> self,
        ret |-> [i \in 1..n |->
                   RatSumTo([k \in 1..n |-> RatScale(self.EV[i][k], u[k])], n)]]

Cm05Matrix_transMult(self, x) == Cm05Matrix_mult(self, x)

\* dispatch on the class of the object
mult(self, x) ==
    CASE self.kind = "MultLeftMatrix" -> MultLeftMatrix_mult(self, x)
      [] self.kind = "MultRightMatrix" -> MultRightMatrix_mult(self, x)
      [] self.kind = "MultLeftRightMatrix" -> MultLeftRightMatrix_mult(self, x)
      [] self.kind = "Cm05Matrix" -> Cm05Matrix_mult(self, x)

transMult(self, x) ==
    CASE self.kind = "MultLeftMatrix" -> MultLeftMatrix_transMult(self, x)
      [] self.kind = "MultRightMatrix" -> MultRightMatrix_transMult(self, x)
      [] self.kind = "MultLeftRightMatrix" -> MultLeftRightMatrix_transMult(self, x)
      [] self.kind = "Cm05Matrix" -> Cm05Matrix_transMult(self, x)

rows(self) ==
    IF self.kind = "Cm05Matrix" THEN Cm05Matrix_rows(self) ELSE Adapter_rows(self)

cols(self) ==
    IF self.kind = "Cm05Matrix" THEN Cm05Matrix_cols(self) ELSE Adapter_cols(self)

(***************************************************************************)
(* The adapter as a state machine: one object per behaviour, constructed    *)
(* once and then called any number of times.                                *)
(***************************************************************************)
NoCall == [op |-> "none"]

InitMatrix ==
    /\ obj = None
    /\ ctor = NoCall
    /\ last = NoCall
    /\ mgr = Idle
    /\ call = Idle
    /\ gm = Idle

NewMultLeftMatrix ==
    /\ ctor = NoCall
    /\ \E A \in Matrices, left \in AnyVec :
          /\ obj' = LET o == MultLeftMatrix_init(A, left)
                    IN IF o = Raised THEN None ELSE o
          /\ ctor' = [op |-> "MultLeftMatrix", A |-> A, left |-> left,
                      raised |-> MultLeftMatrix_init(A, left) = Raised]
    /\ UNCHANGED <<last, mgr, call, gm>>

NewMultRightMatrix ==
    /\ ctor = NoCall
    /\ \E A \in Matrices :
          \E r \in {Given(v) : v \in Vecs(Cols(A))} \cup {Omitted} :
             /\ obj' = MultRightMatrix_init(A, r)
             /\ ctor' = [op |-> "MultRightMatrix", A |-> A, r |-> r,
                         raised |-> FALSE]
    /\ UNCHANGED <<last, mgr, call, gm>>

NewMultLeftRightMatrix ==
    /\ ctor = NoCall
    /\ \E A \in Matrices, left \in AnyVec, right \in AnyVec :
          /\ obj' = LET o == MultLeftRightMatrix_init(A, left, right)
                    IN IF o = Raised THEN None ELSE o
          /\ ctor' = [op |-> "MultLeftRightMatrix", A |-> A, left |-> left,
                      right |-> right,
                      raised |-> MultLeftRightMatrix_init(A, left, right) = Raised]
    /\ UNCHANGED <<last, mgr, call, gm>>

NewCm05Matrix ==
    /\ ctor = NoCall
    /\ \E A \in DiagMatrices \cup {M \in Matrices : Rows(M) # Cols(M)} :
          /\ obj' = LET o == Cm05Matrix_init(A)
                    IN IF o = Raised THEN None ELSE o
          /\ ctor' = [op |-> "Cm05Matrix", A |-> A,
                      raised |-> Cm05Matrix_init(A) = Raised]
    /\ UNCHANGED <<last, mgr, call, gm>>

CallMult ==
    /\ obj # None
    /\ \E x \in Vecs(cols(obj).ret) :
          LET r == mult(obj, x)
          IN /\ obj' = r.self
             /\ last' = [op |-> "mult", arg |-> x, ret |-> r.ret]
    /\ UNCHANGED <<ctor, mgr, call, gm>>

CallTransMult ==
    /\ obj # None
    /\ \E y \in Vecs(rows(obj).ret) :
          LET r == transMult(obj, y)
          IN /\ obj' = r.self
             /\ last' = [op |-> "transMult", arg |-> y, ret |-> r.ret]
    /\ UNCHANGED <<ctor, mgr, call, gm>>

CallRows ==
    /\ obj # None
    /\ LET r == rows(obj)
       IN /\ obj' = r.self
          /\ last' = [op |-> "rows", ret |-> r.ret]
    /\ UNCHANGED <<ctor, mgr, call, gm>>

CallCols ==
    /\ obj # None
    /\ LET r == cols(obj)
       IN /\ obj' = r.self
          /\ last' = [op |-> "cols", ret |-> r.ret]
    /\ UNCHANGED <<ctor, mgr, call, gm>>

NextMatrix ==
    \/ NewMultLeftMatrix
    \/ NewMultRightMatrix
    \/ NewMultLeftRightMatrix
    \/ NewCm05Matrix
    \/ CallMult
    \/ CallTransMult
    \/ CallRows
    \/ CallCols

SpecMatrix == InitMatrix /\ [][NextMatrix]_vars

(***************************************************************************)
(* physics/ert/ves.py: VESManager.  Real numbers are fractions (Rat).  The  *)
(* native objects (forward operator, inversion) are records of what the     *)
(* manager configured on them.                                              *)
(***************************************************************************)
\* number of soundings: the length of ab2 and of every data vector
NData == 3

\* number of createINV / invert calls made on one manager (call.n counts
\* them and call.hist names them in order)
MaxCalls == 2

DataVals == {1, 4}

DataVecs == [1..NData -> DataVals]

Ab2 == [i \in 1..NData |-> 3 * i]

\* z of a 'smooth' manager (a depth discretisation) and of a 'block' one
\* (the number of layers)
ZSmooth == <<1, 2>>

ZBlock == 2

\* relErrorP=3. and lam = 1000.0, the defaults of the code
DefaultRelErrorP == 3

DefaultLam == 1000

\* lambdaFactor 0.8
DefaultLambdaFactor == Rat(8, 10)

RelErrs == {DefaultRelErrorP, 5}

Lams == {Omitted, Given(20)}

KwKeys == {"lambdaFactor", "robust"}

KwVal(k) == IF k = "lambdaFactor" THEN Rat(1, 2) ELSE TRUE

\* the start models a caller passes: None, or one fitting the manager's type
StartModels(type, Z) ==
    {Omitted,
     Given(IF type = "smooth" THEN RVector(Len(Z) + 1, Rat(7, 1))
                              ELSE <<Rat(2, 1), Rat(7, 1)>>)}

\* np.max
SeqMax(v) == CHOOSE m \in {v[i] : i \in DOMAIN v} : \A i \in DOMAIN v : v[i] <= m

\* the k-th smallest entry of v (v sorted, at position k)
KthSmallest(v, k) ==
    CHOOSE m \in {v[i] : i \in DOMAIN v} :
        /\ Cardinality({i \in DOMAIN v : v[i] < m}) < k
        /\ Cardinality({i \in DOMAIN v : v[i] <= m}) >= k

\* np.median
Median(v) ==
    LET n == Len(v)
    IN IF n % 2 = 1
       THEN Rat(KthSmallest(v, (n + 1) \div 2), 1)
       ELSE Rat(KthSmallest(v, n \div 2) + KthSmallest(v, n \div 2 + 1), 2)

\* VESManager.__init__ (mn2 left out: ab2/3), with createModelTrans's defaults
VESManager_init(ab2, z, Type, verbose) ==
    [verbose |-> verbose, type |-> Type, ab2 |-> ab2,
     mn2 |-> [i \in DOMAIN ab2 |-> Rat(ab2[i], 3)],
     Z |-> z, FOP |-> None, INV |-> None, startmodel |-> Omitted,
     thkBounds |-> <<Rat(10, 1), Rat(1, 10), Rat(30, 1)>>,
     rhoBounds |-> <<Rat(10, 1), Rat(1, 1), Rat(10000, 1)>>,
     trans |-> <<"log", "log">>,
     dataToFit |-> Omitted, resDistribution |-> Omitted]

\* region(i).setParameters(start, lower, upper, trans)
Region(bounds, trans) ==
    Given([start |-> bounds[1], lower |-> bounds[2], upper |-> bounds[3],
           trans |-> trans])

\* VESManager.applyModelTrans, called with a forward operator in place
applyModelTrans(self) ==
    IF self.type = "smooth"
    THEN [self EXCEPT !.FOP.region[0] = Region(self.rhoBounds, self.trans[2])]
    ELSE [self EXCEPT !.FOP.region[0] = Region(self.thkBounds, self.trans[1]),
                      !.FOP.region[1] = Region(self.rhoBounds, self.trans[2])]

\* VESManager.createFOP
createFOP(self) ==
    applyModelTrans(
        [self EXCEPT !.FOP =
            IF self.type = "block"
            THEN [kind |-> "DC1dModelling", ab2 |-> self.ab2, mn2 |-> self.mn2,
                  mesh |-> [kind |-> "Mesh1DBlock", nCells |-> self.Z],
                  region |-> [r \in {0, 1} |-> Omitted]]
            ELSE [kind |-> "DC1dRhoModelling", ab2 |-> self.ab2, mn2 |-> self.mn2,
                  mesh |-> [kind |-> "Mesh1D", nCells |-> Len(self.Z) + 1],
                  region |-> [r \in {0, 1} |-> Omitted]]])

\* VESManager.getDepth
getDepth(self) == Rat(SeqMax(self.ab2), 3)

\* VESManager.createStartModel
createStartModel(self, data) ==
    IF self.type = "smooth"
    THEN [self EXCEPT !.startmodel = Given(RVector(Len(self.Z) + 1, Median(data)))]
    ELSE [self EXCEPT !.startmodel =
             Given(<<Rat(getDepth(self).n, getDepth(self).d * self.Z * 2),
                     Median(data)>>)]

\* pg.RInversion(data, FOP, False): nothing configured yet
RInversion(data) ==
    [kind |-> "RInversion", data |-> data, transData |-> Omitted,
     marquardt |-> Omitted, robust |-> Omitted, relError |-> Omitted,
     model |-> Omitted, lam |-> Omitted]

\* one call into the native inversion object, as the trace of a handler
\* records it
Did(m, a) == [m |-> m, a |-> a]

\* VESManager.applyDataTrans
applyDataTrans(self) == [self EXCEPT !.INV.transData = Given("RTransLog")]

\* kwargs.pop(key): the keywords left
Pop(kwargs, key) == [k \in (DOMAIN kwargs) \ {key} |-> kwargs[k]]

\* the Marquardt configuration of a 'block' manager: the debug print pops
\* lambdaFactor (KeyError when absent), then the scheme is set from what is
\* left of kwargs.  Gives the manager, whether it raised, and the calls made.
createINV_block(self, kwargs) ==
    IF "lambdaFactor" \notin DOMAIN kwargs
    THEN [self |-> self, raised |-> TRUE, trace |-> <<>>]
    ELSE LET kw1 == Pop(kwargs, "lambdaFactor")
             lf == IF "lambdaFactor" \in DOMAIN kw1
                   THEN kw1["lambdaFactor"] ELSE DefaultLambdaFactor
             kw2 == Pop(kw1, "lambdaFactor")
             rb == IF "robust" \in DOMAIN kw2 THEN kw2["robust"] ELSE FALSE
         IN [self |-> [self EXCEPT !.INV.marquardt = Given(lf),
                                   !.INV.robust = Given(rb)],
             raised |-> FALSE,
             trace |-> <<Did("setMarquardtScheme", lf), Did("setRobustData", rb)>>]

\* the start model part of createINV
createINV_startmodel(self, data, startmodel) ==
    LET s1 == IF startmodel.given THEN [self EXCEPT !.startmodel = startmodel]
                                  ELSE self
        s2 == IF ~s1.startmodel.given THEN createStartModel(s1, data) ELSE s1
    IN IF s2.type = "smooth"
       THEN [s2 EXCEPT !.INV.model = s2.startmodel]
       ELSE [s2 EXCEPT !.FOP.region[0].v.start = s2.startmodel.v[1],
                       !.FOP.region[1].v.start = s2.startmodel.v[2]]

\* VESManager.createINV: the manager after the call, whether it raised, and
\* the calls made on the inversion object
createINV(self, data, relErrorP, startmodel, kwargs) ==
    LET s1 == IF self.FOP = None THEN createFOP(self) ELSE self
        s2 == applyDataTrans([s1 EXCEPT !.INV = RInversion(data)])
        t2 == <<Did("RInversion", data), Did("setTransData", "RTransLog")>>
        b == IF s2.type = "block"
             THEN createINV_block(s2, kwargs)
             ELSE [self |-> s2, raised |-> FALSE, trace |-> <<>>]
        s3 == [b.self EXCEPT !.INV.relError = Given(Rat(relErrorP, 100))]
    IN IF b.raised
       THEN [self |-> b.self, raised |-> TRUE, trace |-> t2 \o b.trace]
       ELSE [self |-> createINV_startmodel(s3, data, startmodel),
             raised |-> FALSE,
             trace |-> t2 \o b.trace
                        \o <<Did("setRelativeError", Rat(relErrorP, 100))>>]

\* INV.runChi1() and INV.run(): what the native solver returns is a value
\* determined by the inversion object it runs on
runChi1(inv) == [by |-> "runChi1", inv |-> inv]

run(inv) == [by |-> "run", inv |-> inv]

\* the run part of invert, on a manager with an inversion object
invert_run(self, lam) ==
    LET r == IF self.type = "smooth" /\ ~lam.given
             THEN [self |-> [self EXCEPT !.resDistribution = Given(runChi1(self.INV))],
                   trace |-> <<Did("runChi1", <<>>)>>]
             ELSE LET l == IF ~lam.given THEN DefaultLam ELSE lam.v
                      s == [self EXCEPT !.INV.lam = Given(l)]
                  IN [self |-> [s EXCEPT !.resDistribution = Given(run(s.INV))],
                      trace |-> <<Did("setLambda", l), Did("run", <<>>)>>]
    IN [self |-> r.self,
        trace |-> r.trace \o (IF self.verbose = FALSE
                              THEN <<Did("echoStatus", <<>>)>> ELSE <<>>)]

\* VESManager.invert: the manager after the call, whether it raised, the
\* calls made on the inversion object, and the value returned
invert(self, data, startmodel, relErrorP, lam, kwargs) ==
    LET s0 == [self EXCEPT !.dataToFit = Given(data)]
        c == IF s0.INV = None
             THEN createINV(s0, data, relErrorP, startmodel, kwargs)
             ELSE [self |-> s0, raised |-> FALSE, trace |-> <<>>]
        r == invert_run(c.self, lam)
    IN IF c.raised
       THEN [self |-> c.self, raised |-> TRUE, trace |-> c.trace, ret |-> Omitted]
       ELSE [self |-> r.self, raised |-> FALSE, trace |-> c.trace \o r.trace,
             ret |-> r.self.resDistribution]

(***************************************************************************)
(* The manager as a state machine: constructed, then createINV and invert   *)
(* called in any order.                                                     *)
(***************************************************************************)
InitVES ==
    /\ \E verbose \in BOOLEAN :
          \/ mgr = VESManager_init(Ab2, ZSmooth, "smooth", verbose)
          \/ mgr = VESManager_init(Ab2, ZBlock, "block", verbose)
    /\ call = [op |-> "none", n |-> 0, hist |-> <<>>]
    /\ obj = Idle
    /\ ctor = Idle
    /\ last = Idle
    /\ gm = Idle

CallCreateINV ==
    /\ call.n < MaxCalls
    /\ \E data \in DataVecs, relErrorP \in RelErrs,
          startmodel \in StartModels(mgr.type, mgr.Z), keys \in SUBSET KwKeys :
          LET kwargs == [k \in keys |-> KwVal(k)]
              r == createINV(mgr, data, relErrorP, startmodel, kwargs)
          IN /\ mgr' = r.self
             /\ call' = [op |-> "createINV", n |-> call.n + 1,
                         hist |-> Append(call.hist, "createINV"), data |-> data,
                         relErrorP |-> relErrorP, startmodel |-> startmodel,
                         kwargs |-> kwargs, fresh |-> ~mgr.startmodel.given,
                         raised |-> r.raised, trace |-> r.trace]
    /\ UNCHANGED <<obj, ctor, last, gm>>

CallInvert ==
    /\ call.n < MaxCalls
    /\ \E data \in DataVecs, relErrorP \in RelErrs, lam \in Lams,
          startmodel \in StartModels(mgr.type, mgr.Z), keys \in SUBSET KwKeys :
          LET kwargs == [k \in keys |-> KwVal(k)]
              r == invert(mgr, data, startmodel, relErrorP, lam, kwargs)
          IN /\ mgr' = r.self
             /\ call' = [op |-> "invert", n |-> call.n + 1,
                         hist |-> Append(call.hist, "invert"), data |-> data,
                         relErrorP |-> relErrorP, startmodel |-> startmodel,
                         lam |-> lam, kwargs |-> kwargs,
                         raised |-> r.raised, trace |-> r.trace, ret |-> r.ret]
    /\ UNCHANGED <<obj, ctor, last, gm>>

NextVES ==
    \/ CallCreateINV
    \/ CallInvert

SpecVES == InitVES /\ [][NextVES]_vars

(***************************************************************************)
(* mplviewer/dataview.py: generateMatrix.  Python's indices and the ranks   *)
(* stored in xmap / ymap start at 0; the argument vectors are TLA+          *)
(* sequences, entry i + 1 being Python's [i].                               *)
(***************************************************************************)
\* largest length of xvec, yvec and vals
MaxVecLen == 3

\* the x / y values and the data values of the arguments
Keys == {2, 5, 9}

DataValues == {0, 7}

\* np.unique of a set of values: the sorted sequence of them
RECURSIVE SortedSeq(_)
SortedSeq(S) ==
    IF S = {} THEN <<>>
    ELSE LET m == CHOOSE a \in S : \A b \in S : a <= b
         IN <<m>> \o SortedSeq(S \ {m})

\* np.unique(v)
Unique(v) == SortedSeq({v[i] : i \in DOMAIN v})

\* {xx: ii for ii, xx in enumerate(u)}
EnumerateMap(u) ==
    [k \in {u[i] : i \in DOMAIN u} |-> (CHOOSE i \in DOMAIN u : u[i] = k) - 1]

\* np.zeros((nrows, ncols))
Zeros(nrows, ncols) == [r \in 0..(nrows - 1) |-> [c \in 0..(ncols - 1) |-> 0]]

\* faulty variant: a cell that holds a value already keeps it ("not shown")
generateMatrix_store_keepFirst(A, r, c, v) ==
    IF A[r][c] # 0 THEN A ELSE [A EXCEPT ![r][c] = v]

\* A[ymap[yi], xmap[xi]] = vals[i]
generateMatrix_store(A, r, c, v) == [A EXCEPT ![r][c] = v]

\* the loop of generateMatrix from Python index i on: A and inot at its end
RECURSIVE generateMatrix_loop(_, _, _, _, _, _, _, _, _)
generateMatrix_loop(A, inot, i, nshow, xvec, yvec, vals, xmap, ymap) ==
    IF i >= nshow
    THEN [A |-> A, inot |-> inot]
    ELSE LET xi == xvec[i + 1]
             yi == yvec[i + 1]
         IN generateMatrix_loop(
                generateMatrix_store(A, ymap[yi], xmap[xi], vals[i + 1]),
                IF A[ymap[yi]][xmap[xi]] # 0 THEN Append(inot, i) ELSE inot,
                i + 1, nshow, xvec, yvec, vals, xmap, ymap)

Min3(a, b, c) == CHOOSE m \in {a, b, c} : m <= a /\ m <= b /\ m <= c

\* generateMatrix(xvec, yvec, vals, full): A, xmap, ymap (and inot, which it
\* prints)
generateMatrix(xvec, yvec, vals, full) ==
    LET xmap == IF full THEN EnumerateMap(Unique(xvec \o yvec))
                        ELSE EnumerateMap(Unique(xvec))
        ymap == IF full THEN EnumerateMap(Unique(xvec \o yvec))
                        ELSE EnumerateMap(Unique(yvec))
        A0 == Zeros(Cardinality(DOMAIN ymap), Cardinality(DOMAIN xmap))
        nshow == Min3(Len(xvec), Len(yvec), Len(vals))
        done == generateMatrix_loop(A0, <<>>, 0, nshow, xvec, yvec, vals,
                                    xmap, ymap)
    IN [A |-> done.A, xmap |-> xmap, ymap |-> ymap, inot |-> done.inot]

\* the arguments: three vectors of the same length, and full
InitData ==
    /\ \E n \in 1..MaxVecLen :
          \E xvec \in [1..n -> Keys], yvec \in [1..n -> Keys],
             vals \in [1..n -> DataValues], full \in BOOLEAN :
             gm = [op |-> "args", xvec |-> xvec, yvec |-> yvec, vals |-> vals,
                   full |-> full]
    /\ obj = Idle
    /\ ctor = Idle
    /\ last = Idle
    /\ mgr = Idle
    /\ call = Idle

CallGenerateMatrix ==
    /\ gm.op = "args"
    /\ LET r == generateMatrix(gm.xvec, gm.yvec, gm.vals, gm.full)
       IN gm' = [op |-> "done", xvec |-> gm.xvec, yvec |-> gm.yvec,
                 vals |-> gm.vals, full |-> gm.full,
                 A |-> r.A, xmap |-> r.xmap, ymap |-> r.ymap, inot |-> r.inot]
    /\ UNCHANGED <<obj, ctor, last, mgr, call>>

NextData == CallGenerateMatrix

SpecData == InitData /\ [][NextData]_vars

(***************************************************************************)
(* Claims about the matrix adapters (checked under SpecMatrix)              *)
(***************************************************************************)
\* the linear algebra the claims are stated in, written over sequences
RECURSIVE RefDot(_, _)
RefDot(u, v) ==
    IF u = <<>> THEN 0 ELSE Head(u) * Head(v) + RefDot(Tail(u), Tail(v))

Hadamard(u, v) == [i \in DOMAIN u |-> u[i] * v[i]]

Column(A, j) == [i \in DOMAIN A |-> A[i][j]]

Apply(A, x) == [i \in DOMAIN A |-> RefDot(A[i], x)]

ApplyT(A, y) == [j \in DOMAIN A[1] |-> RefDot(Column(A, j), y)]

Ones(n) == [i \in 1..n |-> 1]

ScaledKinds == {"MultLeftMatrix", "MultRightMatrix", "MultLeftRightMatrix"}

\* the r a MultRightMatrix was constructed with: all ones when left out
CtorR == IF ctor.r.given THEN ctor.r.v ELSE Ones(Cols(ctor.A))

\* C1: mult of a scaled adapter is the composition of the scalings passed to
\* the constructor with A: A.(r o x) for MultRightMatrix (r all ones when not
\* given), left o (A.x) for MultLeftMatrix, left o (A.(right o x)) for
\* MultLeftRightMatrix.
C1_MultIsComposition ==
    (last.op = "mult" /\ ctor.op \in ScaledKinds) =>
        last.ret =
            CASE ctor.op = "MultRightMatrix" ->
                    Apply(ctor.A, Hadamard(CtorR, last.arg))
              [] ctor.op = "MultLeftMatrix" ->
                    Hadamard(ctor.left, Apply(ctor.A, last.arg))
              [] ctor.op = "MultLeftRightMatrix" ->
                    Hadamard(ctor.left,
                             Apply(ctor.A, Hadamard(ctor.right, last.arg)))

C1_Witness ==
    /\ ctor.op = "MultRightMatrix"
    /\ ctor.A = <<<<1, 2, 1>>, <<2, 2, 1>>>>
    /\ ctor.r = Given(<<2, 1, 2>>)
    /\ last.op = "mult"
    /\ last.arg = <<1, 2, 2>>
    /\ last.ret = <<10, 12>>

\* C2: transMult is the transposed operator of mult: <y, mult(x)> equals
\* <transMult(y), x> for every x of length cols() and y of length rows();
\* MultRightMatrix.transMult(y) is (A^T.y) o r; rows() and cols() are those
\* of the wrapped A.
C2_TransMultIsTranspose ==
    (ctor.op \in ScaledKinds /\ obj # None) =>
        /\ last.op = "mult" =>
              \A y \in Vecs(Rows(ctor.A)) :
                 RefDot(y, last.ret) = RefDot(transMult(obj, y).ret, last.arg)
        /\ last.op = "transMult" =>
              /\ \A x \in Vecs(Cols(ctor.A)) :
                    RefDot(last.arg, mult(obj, x).ret) = RefDot(last.ret, x)
              /\ ctor.op = "MultRightMatrix" =>
                    last.ret = Hadamard(ApplyT(ctor.A, last.arg), CtorR)
        /\ last.op = "rows" => last.ret = Len(ctor.A)
        /\ last.op = "cols" => last.ret = Len(ctor.A[1])

C2_Witness ==
    /\ ctor.op = "MultLeftRightMatrix"
    /\ ctor.A = <<<<1, 2>>, <<2, 2>>, <<1, 1>>>>
    /\ ctor.left = <<1, 2, 2>>
    /\ ctor.right = <<2, 1>>
    /\ last.op = "transMult"
    /\ last.arg = <<2, 1, 1>>
    /\ last.ret = <<16, 10>>

\* the object a fresh run of the recorded constructor call gives
Fresh ==
    CASE ctor.op = "MultLeftMatrix" -> MultLeftMatrix_init(ctor.A, ctor.left)
      [] ctor.op = "MultRightMatrix" -> MultRightMatrix_init(ctor.A, ctor.r)
      [] ctor.op = "MultLeftRightMatrix" ->
            MultLeftRightMatrix_init(ctor.A, ctor.left, ctor.right)
      [] ctor.op = "Cm05Matrix" -> Cm05Matrix_init(ctor.A)

\* what call c returns on the freshly constructed object
Replay(c) ==
    CASE c.op = "mult" -> mult(Fresh, c.arg).ret
      [] c.op = "transMult" -> transMult(Fresh, c.arg).ret
      [] c.op = "rows" -> rows(Fresh).ret
      [] c.op = "cols" -> cols(Fresh).ret

\* C3: the adapters are stateless: every mult, transMult, rows or cols call
\* on a constructed adapter leaves all its fields unchanged, and returns what
\* the same call returns on the freshly constructed object, whatever calls
\* came before.
C3_Stateless ==
    [][obj # None => (obj' = obj /\ last'.ret = Replay(last'))]_vars

C3_Witness ==
    /\ ctor.op = "Cm05Matrix"
    /\ ctor.A = <<<<4, 0>>, <<0, 1>>>>
    /\ obj = [kind |-> "Cm05Matrix", size |-> 2, ew |-> <<1, 4>>,
              EV |-> <<<<0, 1>>, <<1, 0>>>>,
              mul |-> <<[n |-> 1, d |-> 1], [n |-> 1, d |-> 2]>>,
              A |-> ctor.A]
    /\ last.op = "transMult"
    /\ last.arg = <<2, 1>>
    /\ last.ret = <<[n |-> 1, d |-> 1], [n |-> 1, d |-> 1]>>

\* C4: MultLeftMatrix(A, left) raises iff len(left) # A.rows();
\* MultLeftRightMatrix(A, left, right) raises iff len(right) # A.cols() or
\* len(left) # A.rows(); a raising constructor produces no object, and a
\* constructed object stores exactly the matrix and vectors passed.
C4_ConstructionFailsIffMisfit ==
    /\ ctor.op = "MultLeftMatrix" =>
          /\ ctor.raised <=> Len(ctor.left) # Len(ctor.A)
          /\ ctor.raised => obj = None
          /\ ~ctor.raised => /\ obj.kind = "MultLeftMatrix"
                             /\ obj.A = ctor.A
                             /\ obj.left = ctor.left
    /\ ctor.op = "MultLeftRightMatrix" =>
          /\ ctor.raised <=> (Len(ctor.right) # Len(ctor.A[1])
                                \/ Len(ctor.left) # Len(ctor.A))
          /\ ctor.raised => obj = None
          /\ ~ctor.raised => /\ obj.kind = "MultLeftRightMatrix"
                             /\ obj.A = ctor.A
                             /\ obj.left = ctor.left
                             /\ obj.right = ctor.right

C4_Witness ==
    /\ ctor.op = "MultLeftRightMatrix"
    /\ Len(ctor.right) = Len(ctor.A[1])
    /\ Len(ctor.left) # Len(ctor.A)
    /\ ctor.raised
    /\ obj = None

(***************************************************************************)
(* Claims about the VESManager (checked under SpecVES)                      *)
(***************************************************************************)
\* the arithmetic mean of a data vector
Mean(v) == Rat(SumTo(v, Len(v)), Len(v))

\* the names of the calls a handler made on the inversion object, in order
TraceNames == [i \in DOMAIN call.trace |-> call.trace[i].m]

\* C5: after any invert call returns, also a second or later one on the same
\* manager, the inversion object that was run holds that call's data, that
\* call's relative error relErrorP/100 and that call's start model.  Stated
\* for 'smooth' managers, on which no call raises, and for managers on
\* which nothing but invert was called.
C5_InvertRunsOnCallInputs ==
    (/\ call.op = "invert"
     /\ ~call.raised
     /\ mgr.type = "smooth"
     /\ \A i \in DOMAIN call.hist : call.hist[i] = "invert") =>
        /\ mgr.INV.data = call.data
        /\ mgr.INV.relError = Given(Rat(call.relErrorP, 100))
        /\ call.startmodel.given =>
              IF mgr.type = "smooth"
              THEN mgr.INV.model = call.startmodel
              ELSE /\ mgr.FOP.region[0].v.start = call.startmodel.v[1]
                   /\ mgr.FOP.region[1].v.start = call.startmodel.v[2]

\* C6: createINV on a 'block' manager completes without raising and
\* configures the Marquardt scheme with the caller's lambdaFactor, or with
\* 0.8 when lambdaFactor is not given.
C6_BlockLambdaFactor ==
    (call.op = "createINV" /\ mgr.type = "block") =>
        /\ ~call.raised
        /\ mgr.INV.marquardt =
              Given(IF "lambdaFactor" \in DOMAIN call.kwargs
                    THEN call.kwargs["lambdaFactor"] ELSE DefaultLambdaFactor)

\* C7: createINV with startmodel=None on a manager whose startmodel was never
\* set starts the inversion from the mean of the data: 'smooth' a vector of
\* len(Z)+1 entries equal to it, 'block' the start value of region 1.
C7_DefaultStartModelIsMean ==
    (call.op = "createINV" /\ ~call.raised /\ ~call.startmodel.given
        /\ call.fresh) =>
        IF mgr.type = "smooth"
        THEN mgr.INV.model = Given(RVector(Len(mgr.Z) + 1, Mean(call.data)))
        ELSE mgr.FOP.region[1].v.start = Mean(call.data)

\* C9: invert returns; for 'smooth' with lam=None it calls runChi1 and never
\* setLambda; in every other case it calls setLambda exactly once, before
\* run, with the given lam or 1000.0; the value returned is the stored
\* resDistribution and dataToFit is the data passed.
C9_InvertRunMode ==
    call.op = "invert" =>
        /\ ~call.raised
        /\ LET setL == {i \in DOMAIN call.trace : TraceNames[i] = "setLambda"}
           IN IF mgr.type = "smooth" /\ ~call.lam.given
              THEN /\ \E i \in DOMAIN call.trace : TraceNames[i] = "runChi1"
                   /\ setL = {}
              ELSE /\ Cardinality(setL) = 1
                   /\ \A i \in setL :
                         /\ call.trace[i].a =
                               (IF call.lam.given THEN call.lam.v ELSE DefaultLam)
                         /\ \E j \in DOMAIN call.trace :
                               j > i /\ TraceNames[j] = "run"
        /\ call.ret = mgr.resDistribution
        /\ mgr.dataToFit = Given(call.data)

(***************************************************************************)
(* Claim about generateMatrix (checked under SpecData)                      *)
(***************************************************************************)
ValuesOf(v) == {v[i] : i \in DOMAIN v}

\* the rank of k among the values S, in increasing order, from 0
RankIn(S, k) == Cardinality({j \in S : j < k})

\* the last index with the same (x, y) as index i
LastSame(i) ==
    CHOOSE j \in DOMAIN gm.xvec :
        /\ gm.xvec[j] = gm.xvec[i] /\ gm.yvec[j] = gm.yvec[i]
        /\ \A k \in DOMAIN gm.xvec :
              (gm.xvec[k] = gm.xvec[i] /\ gm.yvec[k] = gm.yvec[i]) => k <= j

\* C8: generateMatrix on three vectors of one length returns A with one row
\* per unique yvec value and one column per unique xvec value, xmap / ymap
\* sending each unique value to its rank; the cell of datum i holds the value
\* of the last datum with the same (x, y); a cell no datum addresses is 0;
\* with full=True both maps are the one map over the values of xvec and yvec
\* together, and A is square.
C8_GenerateMatrix ==
    gm.op = "done" =>
        LET xs == IF gm.full THEN ValuesOf(gm.xvec) \cup ValuesOf(gm.yvec)
                             ELSE ValuesOf(gm.xvec)
            ys == IF gm.full THEN ValuesOf(gm.xvec) \cup ValuesOf(gm.yvec)
                             ELSE ValuesOf(gm.yvec)
            rowsA == 0..(Cardinality(ys) - 1)
            colsA == 0..(Cardinality(xs) - 1)
        IN /\ DOMAIN gm.xmap = xs
           /\ DOMAIN gm.ymap = ys
           /\ \A k \in xs : gm.xmap[k] = RankIn(xs, k)
           /\ \A k \in ys : gm.ymap[k] = RankIn(ys, k)
           /\ DOMAIN gm.A = rowsA
           /\ \A r \in rowsA : DOMAIN gm.A[r] = colsA
           /\ \A i \in DOMAIN gm.xvec :
                 gm.A[gm.ymap[gm.yvec[i]]][gm.xmap[gm.xvec[i]]]
                    = gm.vals[LastSame(i)]
           /\ \A r \in rowsA, c \in colsA :
                 (~\E i \in DOMAIN gm.xvec :
                      RankIn(ys, gm.yvec[i]) = r /\ RankIn(xs, gm.xvec[i]) = c)
                    => gm.A[r][c] = 0
           /\ gm.full => (gm.xmap = gm.ymap /\ rowsA = colsA)

C8_Witness ==
    /\ gm.op = "done"
    /\ gm.xvec = <<5, 2, 5>>
    /\ gm.yvec = <<9, 2, 9>>
    /\ gm.vals = <<7, 7, 0>>
    /\ ~gm.full
    /\ gm.xmap = (2 :> 0 @@ 5 :> 1)
    /\ gm.ymap = (2 :> 0 @@ 9 :> 1)
    /\ gm.A = (0 :> (0 :> 7 @@ 1 :> 0) @@ 1 :> (0 :> 0 @@ 1 :> 0))
    /\ gm.inot = <<2>>

====
